---- MODULE Spec2Model ----
(***************************************************************************)
(* Model of the syncHandler content-synchronisation pipeline:              *)
(*   calendarSyncHandler.go  (calendar feed -> calendar.html)              *)
(*   newsSyncHandler.go      (news listing  -> news.html)                  *)
(* Documents are strings; the markers are the literal constants of the     *)
(* source.  Go's 0-based half-open slices s[a:b] are SubSeq(s, a+1, b).    *)
(* Time is counted in days of January 2006.                                *)
(***************************************************************************)
EXTENDS Integers, Sequences, FiniteSets, Bags, TLC

VARIABLES
    handler,      \* which program runs: "calendar" or "news"
    pc,           \* position in main ("ready": no run in progress)
    run,          \* number of runs (or patcher applications) started so far
    exit,         \* how the latest run ended ("running" while it runs)
    site,         \* news: the listing and the articles the site serves
    prevExit,     \* how the run before it ended
    upstream,     \* what this run fetched from the remote source
    prevUpstream, \* what the run before it fetched
    file,         \* content of the target document on disk
    orig,         \* the document as it was before the first run
    fileAtStart,  \* the document as the current/latest patch step read it
    remote,       \* the document in the remote repository (last push)
    events,       \* calendar main: events
    now,          \* calendar generateHTML: time.Now() in days (0: not read)
    articles,     \* news main: articles
    htmlContent,  \* main's htmlContent: the new inner content
    lastContent,  \* htmlContent of the latest patch step (NoContent before any)
    modified,     \* first result of updateHTMLContent / updateNewsHTML
    patchErr,     \* second result: "" (nil) or the error text
    persist,      \* the file write of this run: "none", "failed" or "ok"
    published,    \* gitCommitAndPush was invoked in this run
    sent,         \* processArticles: URLs the producer loop has sent on ch
    ch,           \* processArticles: the buffered work queue
    chClosed,     \* processArticles: close(ch) has happened
    idle,         \* workers waiting at "for url := range ch"
    fetching,     \* bag of URLs held by workers inside fetchArticle
    sending,      \* bag of articles held by workers at "results <- article"
    exited,       \* workers that have returned (wg.Done)
    results       \* processArticles: the buffered results channel

\* never changed by a run
envVars == <<handler, site, orig>>
\* set when a run begins
runVars == <<run, prevExit, prevUpstream, fileAtStart>>
\* the locals and results of main
mainVars == <<pc, exit, upstream, events, now, articles, htmlContent,
              lastContent, modified, patchErr, persist, published>>
poolVars == <<sent, ch, chClosed, idle, fetching, sending, exited, results>>
vars == <<envVars, runVars, mainVars, file, remote, poolVars>>

----------------------------------------------------------------------------
(* Bounds of the model *)

\* longest initial document of the patcher specification, in pieces
MaxPieces == 3
\* patcher applications per behaviour of the patcher specification
MaxPatches == 3
\* runs of a handler per behaviour
MaxRuns == 2
\* longest article listing
MaxURLs == 2

\* longest event feed of the assembly specification
MaxEvents == 3

\* longest article listing of the worker-pool specification
MaxPoolURLs == 6

\* most nodes in the body of an article page
MaxNodes == 3

----------------------------------------------------------------------------
(* Program constants *)

startMarker == "<!-- START UNDER HERE -->"
endMarker == "<!-- END AUTOMATION SCRIPT -->"

----------------------------------------------------------------------------
(* strings package *)

\* strings.Index(s, sub): 0-based index of the first occurrence, or -1
Index(s, sub) ==
    LET hits == {i \in 0..(Len(s) - Len(sub)) : SubSeq(s, i + 1, i + Len(sub)) = sub}
    IN  IF hits = {} THEN -1
        ELSE CHOOSE i \in hits : \A j \in hits : i <= j

\* strings.Contains
Contains(s, sub) == Index(s, sub) # -1

\* s[:hi] and s[lo:] of Go
SliceTo(s, hi) == SubSeq(s, 1, hi)
SliceFrom(s, lo) == SubSeq(s, lo + 1, Len(s))

----------------------------------------------------------------------------
(* The patcher: the string computation of updateHTMLContent/updateNewsHTML *)

\* startIdx := strings.Index(html, startMarker) + len(startMarker)
startIdx(html) == Index(html, startMarker) + Len(startMarker)

\* endIdx := strings.Index(html, endMarker)
endIdx(html) == Index(html, endMarker)

\* if startIdx == -1 || endIdx == -1 { return false, "markers not found" }
markersNotFound(html) == startIdx(html) = -1 \/ endIdx(html) = -1

\* the calendar patcher, keeping the old region after the new content
updatedCalendarKeepsRegion(html, newContent) ==
    LET s == startIdx(html)
    IN  SliceTo(html, s) \o "\n" \o newContent \o "\n" \o SliceFrom(html, s)

\* the calendar patcher, without the newline after the new content
updatedCalendarNoNewlineAfter(html, newContent) ==
    LET s == startIdx(html)
        e == endIdx(html)
    IN  SliceTo(html, s) \o "\n" \o newContent \o SliceFrom(html, e)

\* calendar: updated := html[:startIdx] + "\n" + newContent + "\n" + html[endIdx:]
updatedCalendar(html, newContent) ==
    LET s == startIdx(html)
        e == endIdx(html)
    IN  SliceTo(html, s) \o "\n" \o newContent \o "\n" \o SliceFrom(html, e)

\* the news patcher, cutting the head where the start marker begins
updatedNewsDropsStartMarker(html, newContent) ==
    LET s == Index(html, startMarker)
        e == endIdx(html)
    IN  SliceTo(html, s) \o newContent \o SliceFrom(html, e)

\* the news patcher, resuming after the end marker
updatedNewsDropsEndMarker(html, newContent) ==
    LET s == startIdx(html)
        e == endIdx(html)
    IN  SliceTo(html, s) \o newContent
            \o SliceFrom(html, e + Len(endMarker))

\* news: updated := html[:startIdx] + newContent + html[endIdx:]
updatedNews(html, newContent) ==
    LET s == startIdx(html)
        e == endIdx(html)
    IN  SliceTo(html, s) \o newContent \o SliceFrom(html, e)

\* the patcher of handler h
updated(h, html, newContent) ==
    IF h = "calendar" THEN updatedCalendar(html, newContent)
    ELSE updatedNews(html, newContent)

----------------------------------------------------------------------------
(* Calendar: fetchEvents and generateHTML *)

Digit == <<"1", "2", "3", "4", "5", "6", "7", "8", "9">>

\* t.Format("January 02, 2006") for a day 1..9 of January 2006
FormatLong(t) == "January 0" \o Digit[t] \o ", 2006"

\* fetchEvents returning the events in feed order, unsorted
eventsUnsorted(s) == s

\* sort.Slice(parser.Events, Start.Before): Go sorts a slice of fewer than 12
\* elements by insertion sort (sort.insertionSortLessFunc)
RECURSIVE sortEvents(_)
sortEvents(s) ==
    IF Len(s) <= 1 THEN s
    ELSE LET p == sortEvents(SubSeq(s, 1, Len(s) - 1))
             x == s[Len(s)]
             stops == {j \in 1..Len(p) : ~(x.Start < p[j].Start)}
             k == IF stops = {} THEN 0
                  ELSE CHOOSE j \in stops : \A i \in stops : i <= j
         IN  SubSeq(p, 1, k) \o <<x>> \o SubSeq(p, k + 1, Len(p))

\* fmt.Sprintf of the event template (calendarSyncHandler.go:107-125)
eventHTML(event) ==
    "\n"
    \o "\t\t<div class=\"event\">\n"
    \o "\t\t  <h2><strong>"
    \o event.Summary
    \o "</strong></h2>\n"
    \o "\t\t  <p><b>Event Start:</b> "
    \o FormatLong(event.Start)
    \o "</p>\n"
    \o "\t\t  <p><b>Event End:</b> "
    \o FormatLong(event.End)
    \o "</p>\n"
    \o "\t\t  <br>\n"
    \o "\t\t  <p>Click the button below for more information.</p>\n"
    \o "\t\t  <a href=\"https://www.gomotionapp.com/team/cadas/controller/cms/admin/index?team=cadas#/calendar-team-events\" \n"
    \o "\t\t     target=\"_blank\" \n"
    \o "\t\t     rel=\"noopener noreferrer\" \n"
    \o "\t\t     class=\"btn btn-primary\">\n"
    \o "\t\t    More Details\n"
    \o "\t\t  </a>\n"
    \o "\t\t</div>\n"
    \o "\t\t<br><br>"

\* the opening and the closing of the past-events section (lines 138-152)
pastOpen ==
    "\n"
    \o "\t\t<button type=\"button\" class=\"collapsible\">Click for Past Events</button>\n"
    \o "\t\t<div class=\"content\" style=\"display: none;\">"

pastClose ==
    "\n"
    \o "\t\t</div>\n"
    \o "\t\t<br>\n"
    \o "\t\t<script>\n"
    \o "\t\t  document.querySelectorAll('.collapsible').forEach(button => {\n"
    \o "\t\t    button.addEventListener('click', () => {\n"
    \o "\t\t      const content = button.nextElementSibling;\n"
    \o "\t\t      content.style.display = content.style.display === 'block' ? 'none' : 'block';\n"
    \o "\t\t    });\n"
    \o "\t\t  });\n"
    \o "\t\t</script>"

RECURSIVE concatHTML(_, _)
\* the fragments of the events of s that are past (or not), in order
concatHTML(s, past) ==
    IF s = <<>> THEN ""
    ELSE (IF past[1] THEN eventHTML(s[1]) ELSE "")
             \o concatHTML(Tail(s), Tail(past))

\* generateHTML of calendarSyncHandler.go, time.Now() being the day at
generateHTMLCalendar(evs, at) ==
    LET isPast == [i \in 1..Len(evs) |-> evs[i].End < at]
        isUpcoming == [i \in 1..Len(evs) |-> ~(evs[i].End < at)]
        pastHTML == concatHTML(evs, isPast)
    IN  concatHTML(evs, isUpcoming)
            \o (IF Len(pastHTML) > 0
                THEN pastOpen \o pastHTML \o pastClose
                ELSE "")

----------------------------------------------------------------------------
(* News: fetchArticle, sortArticlesByDate and generateHTML *)

Whitespace == {" ", "\t", "\n", "\r"}

RECURSIVE TrimLeft(_)
TrimLeft(s) ==
    IF Len(s) > 0 /\ SubSeq(s, 1, 1) \in Whitespace
    THEN TrimLeft(SubSeq(s, 2, Len(s)))
    ELSE s

RECURSIVE TrimRight(_)
TrimRight(s) ==
    IF Len(s) > 0 /\ SubSeq(s, Len(s), Len(s)) \in Whitespace
    THEN TrimRight(SubSeq(s, 1, Len(s) - 1))
    ELSE s

\* strings.TrimSpace
TrimSpace(s) == TrimRight(TrimLeft(s))

\* the day n for which d is "January n, 2006" (timeFormat), or 0
DayOf(d) ==
    LET ds == {n \in 1..9 : d = "January " \o Digit[n] \o ", 2006"}
    IN  IF ds = {} THEN 0 ELSE CHOOSE n \in ds : TRUE

\* time.Parse(time.RFC3339, timestamp) for the timestamps of January 2006
\* in UTC, "2006-01-0dThh:mm:ssZ": the day d, or 0 for a parse error
ParseRFC3339(timestamp) ==
    IF /\ Len(timestamp) = 20
       /\ SubSeq(timestamp, 1, 9) = "2006-01-0"
       /\ \E n \in 1..9 : SubSeq(timestamp, 10, 10) = Digit[n]
       /\ SubSeq(timestamp, 11, 11) = "T"
       /\ SubSeq(timestamp, 20, 20) = "Z"
    THEN CHOOSE n \in 1..9 : SubSeq(timestamp, 10, 10) = Digit[n]
    ELSE 0

\* formatDate
formatDate(timestamp) ==
    IF timestamp = "" THEN "Unknown Date"
    ELSE IF ParseRFC3339(timestamp) # 0
         THEN "January " \o Digit[ParseRFC3339(timestamp)] \o ", 2006"
         ELSE "Unknown Date"

\* strings.HasPrefix
HasPrefix(s, prefix) ==
    Len(s) >= Len(prefix) /\ SubSeq(s, 1, Len(prefix)) = prefix

\* the selector of the heading pass: h1,h2,h3,h4,h5,h6
HeadingTags == {"h1", "h2", "h3", "h4", "h5", "h6"}

\* s.Text(): the text of the nodes of a fragment, its tags left out
RECURSIVE Text(_)
Text(s) ==
    LET lt == Index(s, "<")
        gt == Index(s, ">")
    IN  IF lt = -1 \/ gt < lt THEN s
        ELSE SliceTo(s, lt) \o Text(SliceFrom(s, gt + 1))

\* the paragraph the heading pass builds from the text of a heading
newsParagraph(text) == "<p class=\"news-paragraph\">" \o text \o "</p>"

\* the heading pass writing the paragraph in the place of the heading
\* element
headingReplaced(open, inner, close) == newsParagraph(Text(inner))

\* s.SetHtml(...) on a heading: the children of the heading element are
\* replaced by the paragraph, the element itself stays in the tree
headingSetHtml(open, inner, close) ==
    open \o newsParagraph(Text(inner)) \o close

\* doc.Find("h1,h2,h3,h4,h5,h6").Each(...) followed by the serialisation of
\* the body, for a body of text and of well-formed elements without
\* attributes, the headings not nested in one another
RECURSIVE flattenHeadings(_)
flattenHeadings(s) ==
    LET lt == Index(s, "<")
        gt == Index(s, ">")
        tags == {t \in HeadingTags : HasPrefix(SliceFrom(s, lt), "<" \o t \o ">")}
    IN  IF lt = -1 \/ gt < lt THEN s
        ELSE IF tags = {}
             THEN SliceTo(s, gt + 1) \o flattenHeadings(SliceFrom(s, gt + 1))
             ELSE LET t == CHOOSE t \in tags : TRUE
                      close == "</" \o t \o ">"
                      rest == SliceFrom(s, gt + 1)
                      e == Index(rest, close)
                  IN  IF e = -1
                      THEN SliceTo(s, gt + 1)
                             \o newsParagraph(Text(rest)) \o close
                      ELSE SliceTo(s, lt)
                             \o headingSetHtml(SubSeq(s, lt + 1, gt + 1),
                                               SliceTo(rest, e), close)
                             \o flattenHeadings(SliceFrom(rest, e + Len(close)))

\* the characters the class \s of regexp matches
Space == {" ", "\t", "\n", "\f", "\r"}

\* regexp.MustCompile(`\s+`).ReplaceAllString(html, " ")
RECURSIVE collapseSpace(_)
collapseSpace(s) ==
    LET at == {i \in 1..Len(s) : SubSeq(s, i, i) \in Space}
    IN  IF at = {} THEN s
        ELSE LET i == CHOOSE i \in at : \A j \in at : i <= j
                 k == CHOOSE k \in i..Len(s) :
                        /\ \A j \in i..k : j \in at
                        /\ (k + 1) \notin at
             IN  SubSeq(s, 1, i - 1) \o " "
                   \o collapseSpace(SubSeq(s, k + 1, Len(s)))

\* processContent, for a body without img, a, br and li elements: the
\* headings are rewritten, doc.Html() serialises the parsed document around
\* the body, and the runs of whitespace are collapsed
processContent(html) ==
    collapseSpace("<html><head></head><body>" \o flattenHeadings(html)
                    \o "</body></html>")

\* the article pages the remote site serves
URLs == {"/news/1", "/news/2", "/news/3", "/news/4"}

Page(url) ==
    CASE url = "/news/1" ->
           [title |-> " Relay results\n", data |-> "2006-01-02T10:00:00Z",
            author |-> "Ann", content |-> "alpha"]
      [] url = "/news/2" ->
           [title |-> "Time trials", data |-> "2006-01-02T18:30:00Z",
            author |-> " Bob", content |-> "beta"]
      [] url = "/news/3" ->
           [title |-> "Gala", data |-> "2006-01-03T09:00:00Z",
            author |-> "Cy", content |-> "gamma"]
      [] OTHER ->
           [title |-> "Notice", data |-> "",
            author |-> "Di", content |-> "delta"]

\* fetchArticle, the request succeeding and div.NewsItem found
fetchArticle(articleURL) ==
    [Title   |-> TrimSpace(Page(articleURL).title),
     Date    |-> formatDate(Page(articleURL).data),
     Author  |-> TrimSpace(Page(articleURL).author),
     Content |-> processContent(Page(articleURL).content),
     URL     |-> articleURL]

\* the comparison of sortArticlesByDate the other way round: t1.Before(t2)
dateBefore(a, b) == DayOf(a.Date) < DayOf(b.Date)

\* the comparison of sortArticlesByDate: t1.After(t2), a date that does not
\* parse being the zero time
dateAfter(a, b) == DayOf(a.Date) > DayOf(b.Date)

\* one pass of the insertion sort: x moves left past the articles it is
\* After, and stops behind the last one it is not After
insertArticle(p, x) ==
    LET stops == {j \in 1..Len(p) : ~dateAfter(x, p[j])}
        k == IF stops = {} THEN 0
             ELSE CHOOSE j \in stops : \A i \in stops : i <= j
    IN  SubSeq(p, 1, k) \o <<x>> \o SubSeq(p, k + 1, Len(p))

\* sortArticlesByDate: sort.Slice, an insertion sort below 12 elements
RECURSIVE sortArticlesByDate(_)
sortArticlesByDate(s) ==
    IF Len(s) <= 1 THEN s
    ELSE CHOOSE r \in {insertArticle(p, s[Len(s)]) :
                         p \in {sortArticlesByDate(SubSeq(s, 1, Len(s) - 1))}} :
            TRUE

\* fmt.Sprintf of the article template (newsSyncHandler.go:260-267)
articleHTML(article) ==
    "\n"
    \o "\t\t<div class=\"news-item\">\n"
    \o "\t\t\t<h2 class=\"news-title\"><strong>"
    \o article.Title
    \o "</strong></h2>\n"
    \o "\t\t\t<p class=\"news-date\">Author: "
    \o article.Author
    \o "</p>\n"
    \o "\t\t\t<p class=\"news-date\">Published on "
    \o article.Date
    \o "</p>\n"
    \o "\t\t\t<div class=\"news-content\">"
    \o article.Content
    \o "</div>\n"
    \o "\t\t</div>\n"
    \o "\t\t"
RECURSIVE concatArticles(_)
concatArticles(s) ==
    IF s = <<>> THEN "" ELSE articleHTML(s[1]) \o concatArticles(Tail(s))

\* generateHTML of newsSyncHandler.go
generateHTMLNews(arts) == "\n" \o concatArticles(arts)

----------------------------------------------------------------------------
(* The inputs of a run *)

Handlers == {"calendar", "news"}

\* newsSyncHandler.go: const concurrency
concurrency == 5

\* the scenario document of the specification, with the program's markers
ScenarioDoc == "A" \o startMarker \o "old" \o endMarker \o "B"

\* the documents a first run may find on disk: the scenario document, a
\* fresh template with an empty managed region, documents that lack the
\* start marker, the end marker or both, and documents whose end marker
\* comes first
Documents ==
    { ScenarioDoc,
      "A" \o startMarker \o endMarker \o "B",
      "A" \o endMarker \o "B",
      "A" \o startMarker \o "old",
      "A",
      "A" \o endMarker \o "x" \o startMarker \o "B",
      endMarker \o "A" \o startMarker \o "old" \o endMarker \o "B" }

Meet == [Summary |-> "Meet", Start |-> 1, End |-> 2]
Gala == [Summary |-> "Gala", Start |-> 3, End |-> 4]

\* what the ICS feed may hold, in feed order
Feeds == { <<>>, <<Meet>>, <<Gala, Meet>> }

\* time.Now() at generateHTML
Nows == {1, 3}

RECURSIVE SeqsUpTo(_, _)
SeqsUpTo(S, n) ==
    IF n = 0 THEN {<<>>}
    ELSE LET shorter == SeqsUpTo(S, n - 1)
         IN  shorter \cup {Append(s, x) : s \in shorter, x \in S}

Range(s) == {s[i] : i \in 1..Len(s)}

\* what the news site may serve: the article links of the listing page, in
\* page order, and the article pages that cannot be fetched or parsed
Sites ==
    UNION {{[kind |-> "news", urls |-> listing, failing |-> failing] :
               failing \in SUBSET Range(listing)} :
           listing \in SeqsUpTo(URLs, MaxURLs)}

NoUpstream == [kind |-> "none"]
NoContent == "(none)"

\* the outcomes of the file operations of one patch step: all succeed, or
\* the named one fails (a failed WriteString having written nothing, or the
\* first half of the text)
IOOutcomes == {"ok", "open", "read", "truncate", "seek", "write0", "writeHalf"}

----------------------------------------------------------------------------
(* updateHTMLContent / updateNewsHTML with their file operations, and main *)

\* a return of (false, err): the document left on disk, and whether a write
\* of the new text was begun
failure(text, msg, p) ==
    [file |-> text, modified |-> FALSE, err |-> msg, persist |-> p]

\* if updatedHTML == html { return false, nil }, without the comparison
noChangeNeverFound(updatedHTML, html) == FALSE

\* if updatedHTML == html { return false, nil }
noChange(updatedHTML, html) == updatedHTML = html

\* Truncate, Seek and WriteString with their errors dropped
writeFileIgnoringErrors(html, updatedHTML, io) ==
    [file |-> IF io = "truncate" THEN html
              ELSE IF io \in {"seek", "write0"} THEN ""
              ELSE IF io = "writeHalf"
              THEN SliceTo(updatedHTML, Len(updatedHTML) \div 2)
              ELSE updatedHTML,
     modified |-> TRUE,
     err |-> "",
     persist |-> IF io = "ok" THEN "ok" ELSE "failed"]

\* file.Truncate(0), file.Seek(0, 0), file.WriteString(updatedHTML), each
\* returning (false, err) on failure, then return true, nil
writeFile(html, updatedHTML, io) ==
    IF io = "truncate"
    THEN failure(html, "file truncate failed", "failed")
    ELSE IF io = "seek" THEN failure("", "file seek failed", "failed")
    ELSE IF io = "write0" THEN failure("", "file write failed", "failed")
    ELSE IF io = "writeHalf"
    THEN failure(SliceTo(updatedHTML, Len(updatedHTML) \div 2),
                 "file write failed", "failed")
    ELSE [file |-> updatedHTML, modified |-> TRUE, err |-> "",
          persist |-> "ok"]

\* updateHTMLContent / updateNewsHTML: the document left on disk, the two
\* results, and whether the write of the new text was completed
updateResult(h, html, newContent, io) ==
    LET updatedHTML == updated(h, html, newContent)
    IN  IF io = "open" THEN failure(html, "file open failed", "none")
        ELSE IF io = "read" THEN failure(html, "file read failed", "none")
        ELSE IF markersNotFound(html)
        THEN failure(html, "markers not found", "none")
        ELSE IF noChange(updatedHTML, html)
        THEN [file |-> html, modified |-> FALSE, err |-> "",
              persist |-> "none"]
        ELSE writeFile(html, updatedHTML, io)

\* main after the patch step, calling gitCommitAndPush whatever modified is
mainAlwaysCommits(mod, err) ==
    IF err # "" THEN "fatal" ELSE "commit"

\* main after the patch step: log.Fatalf on an error, gitCommitAndPush only
\* if modified, else the run is complete
mainAfterUpdate(mod, err) ==
    IF err # "" THEN "fatal"
    ELSE IF mod THEN "commit"
    ELSE "done"

----------------------------------------------------------------------------
(* The runs of a handler *)

PoolIdle ==
    /\ sent = 0
    /\ ch = <<>>
    /\ chClosed = FALSE
    /\ idle = 0
    /\ fetching = EmptyBag
    /\ sending = EmptyBag
    /\ exited = 0
    /\ results = <<>>

Init ==
    /\ handler \in Handlers
    /\ site \in IF handler = "news" THEN Sites ELSE {[kind |-> "calendar"]}
    /\ file \in Documents
    /\ orig = file
    /\ fileAtStart = file
    /\ remote = file
    /\ pc = "ready"
    /\ run = 0
    /\ exit = "none"
    /\ prevExit = "none"
    /\ upstream = NoUpstream
    /\ prevUpstream = NoUpstream
    /\ events = <<>>
    /\ now = 0
    /\ articles = <<>>
    /\ htmlContent = NoContent
    /\ lastContent = NoContent
    /\ modified = FALSE
    /\ patchErr = ""
    /\ persist = "none"
    /\ published = FALSE
    /\ PoolIdle

\* a run ends: with a fatal error, or with success
Ends(how) ==
    /\ pc' = "ready"
    /\ exit' = how

\* main begins: the PAT_TOKEN check
mainStart ==
    /\ pc = "ready"
    /\ run < MaxRuns
    /\ run' = run + 1
    /\ prevExit' = exit
    /\ prevUpstream' = upstream
    /\ upstream' = NoUpstream
    /\ fileAtStart' = file
    /\ events' = <<>>
    /\ now' = 0
    /\ articles' = <<>>
    /\ htmlContent' = NoContent
    /\ modified' = FALSE
    /\ patchErr' = ""
    /\ persist' = "none"
    /\ published' = FALSE
    /\ \E token \in BOOLEAN :
         IF token THEN pc' = "fetch" /\ exit' = "running"
         ELSE Ends("fatal: missing PAT_TOKEN")
    /\ UNCHANGED <<envVars, lastContent, file, remote, poolVars>>

\* calendar main going on with no events when fetchEvents returns an error
fetchEventsErrorIgnored ==
    /\ pc = "fetch"
    /\ handler = "calendar"
    /\ \/ /\ upstream' = upstream
          /\ events' = <<>>
       \/ \E feed \in Feeds :
            /\ upstream' = [kind |-> "calendar", feed |-> feed]
            /\ events' = sortEvents(feed)
    /\ pc' = "generate"
    /\ exit' = exit
    /\ UNCHANGED <<envVars, runVars, now, articles, htmlContent,
                   lastContent, modified, patchErr, persist, published, file,
                   remote, poolVars>>

\* calendar main: events, err := fetchEvents(log)
fetchEvents ==
    /\ pc = "fetch"
    /\ handler = "calendar"
    /\ \/ /\ Ends("fatal: failed to fetch events")
          /\ UNCHANGED <<upstream, events>>
       \/ \E feed \in Feeds :
            /\ upstream' = [kind |-> "calendar", feed |-> feed]
            /\ events' = sortEvents(feed)
            /\ pc' = "generate"
            /\ exit' = exit
    /\ UNCHANGED <<envVars, runVars, now, articles, htmlContent,
                   lastContent, modified, patchErr, persist, published, file,
                   remote, poolVars>>

\* news main: articleURLs, err := fetchArticleURLs()
fetchArticleURLs ==
    /\ pc = "fetch"
    /\ handler = "news"
    /\ \/ /\ Ends("fatal: failed to fetch article urls")
          /\ UNCHANGED upstream
       \/ /\ upstream' = site
          /\ pc' = "processArticles"
          /\ exit' = exit
    /\ UNCHANGED <<envVars, runVars, events, now, articles, htmlContent,
                   lastContent, modified, patchErr, persist, published, file,
                   remote, poolVars>>

----------------------------------------------------------------------------
(* processArticles: the producer loop of main's goroutine and the workers *)

\* make the channels and start the workers (lines 123-140)
processArticlesBegin ==
    /\ pc = "processArticles"
    /\ pc' = "pool"
    /\ sent' = 0
    /\ ch' = <<>>
    /\ chClosed' = FALSE
    /\ idle' = concurrency
    /\ fetching' = EmptyBag
    /\ sending' = EmptyBag
    /\ exited' = 0
    /\ results' = <<>>
    /\ UNCHANGED <<envVars, runVars, exit, upstream, events, now, articles,
                   htmlContent, lastContent, modified, patchErr, persist,
                   published, file, remote>>

\* ch <- url (line 143): blocks while the buffer is full
producerSend ==
    /\ pc = "pool"
    /\ sent < Len(upstream.urls)
    /\ Len(ch) < concurrency
    /\ ch' = Append(ch, upstream.urls[sent + 1])
    /\ sent' = sent + 1
    /\ UNCHANGED <<envVars, runVars, mainVars, file, remote, chClosed, idle,
                   fetching, sending, exited, results>>

\* close(ch) (line 145)
producerClose ==
    /\ pc = "pool"
    /\ sent = Len(upstream.urls)
    /\ ~chClosed
    /\ chClosed' = TRUE
    /\ UNCHANGED <<envVars, runVars, mainVars, file, remote, sent, ch, idle,
                   fetching, sending, exited, results>>

\* a worker reading the next URL while leaving it on the queue for the
\* other workers
workerReceivePeeks ==
    /\ pc = "pool"
    /\ idle > 0
    /\ ch # <<>>
    /\ idle' = idle - 1
    /\ fetching' = fetching (+) SetToBag({Head(ch)})
    /\ ch' = ch
    /\ UNCHANGED <<envVars, runVars, mainVars, file, remote, sent, chClosed,
                   sending, exited, results>>

\* a worker receives the next URL (line 131)
workerReceive ==
    /\ pc = "pool"
    /\ idle > 0
    /\ ch # <<>>
    /\ idle' = idle - 1
    /\ fetching' = fetching (+) SetToBag({Head(ch)})
    /\ ch' = Tail(ch)
    /\ UNCHANGED <<envVars, runVars, mainVars, file, remote, sent, chClosed,
                   sending, exited, results>>

\* fetchArticle returns, the worker sending the zero Article on an error
\* instead of taking the next URL
workerFetchKeepsFailed ==
    /\ pc = "pool"
    /\ \E url \in BagToSet(fetching) :
         /\ fetching' = fetching (-) SetToBag({url})
         /\ sending' = sending (+) SetToBag({
                IF url \in upstream.failing
                THEN [Title |-> "", Date |-> "", Author |-> "",
                      Content |-> "", URL |-> ""]
                ELSE fetchArticle(url)})
         /\ idle' = idle
    /\ UNCHANGED <<envVars, runVars, mainVars, file, remote, sent, ch,
                   chClosed, exited, results>>

\* fetchArticle returns (lines 132-136): on an error the worker logs and
\* takes the next URL
workerFetch ==
    /\ pc = "pool"
    /\ \E url \in BagToSet(fetching) :
         /\ fetching' = fetching (-) SetToBag({url})
         /\ IF url \in upstream.failing
            THEN /\ idle' = idle + 1
                 /\ sending' = sending
            ELSE /\ sending' = sending (+) SetToBag({fetchArticle(url)})
                 /\ idle' = idle
    /\ UNCHANGED <<envVars, runVars, mainVars, file, remote, sent, ch,
                   chClosed, exited, results>>

\* the worker storing its article over the latest result instead of
\* appending it
workerSendOverwrites ==
    /\ pc = "pool"
    /\ \E article \in BagToSet(sending) :
         /\ sending' = sending (-) SetToBag({article})
         /\ results' = IF results = <<>> THEN <<article>>
                       ELSE [results EXCEPT ![Len(results)] = article]
    /\ idle' = idle + 1
    /\ UNCHANGED <<envVars, runVars, mainVars, file, remote, sent, ch,
                   chClosed, fetching, exited>>

\* the worker sending on a results channel made with the capacity of the
\* work queue instead of len(urls)
workerSendSmallBuffer ==
    /\ pc = "pool"
    /\ Len(results) < concurrency
    /\ \E article \in BagToSet(sending) :
         /\ sending' = sending (-) SetToBag({article})
         /\ results' = Append(results, article)
    /\ idle' = idle + 1
    /\ UNCHANGED <<envVars, runVars, mainVars, file, remote, sent, ch,
                   chClosed, fetching, exited>>

\* results <- article (line 137): blocks while the buffer, of capacity
\* len(urls), is full
workerSend ==
    /\ pc = "pool"
    /\ Len(results) < Len(upstream.urls)
    /\ \E article \in BagToSet(sending) :
         /\ sending' = sending (-) SetToBag({article})
         /\ results' = Append(results, article)
    /\ idle' = idle + 1
    /\ UNCHANGED <<envVars, runVars, mainVars, file, remote, sent, ch,
                   chClosed, fetching, exited>>

\* the range loop ends on the closed, drained channel; wg.Done (line 130)
workerExit ==
    /\ pc = "pool"
    /\ idle > 0
    /\ chClosed
    /\ ch = <<>>
    /\ idle' = idle - 1
    /\ exited' = exited + 1
    /\ UNCHANGED <<envVars, runVars, mainVars, file, remote, sent, ch,
                   chClosed, fetching, sending, results>>

\* processArticles collecting and returning after close(ch), without wg.Wait
processArticlesEndNoWait ==
    /\ pc = "pool"
    /\ chClosed
    /\ articles' = sortArticlesByDate(results)
    /\ pc' = "articles"
    /\ sent' = 0
    /\ ch' = <<>>
    /\ chClosed' = FALSE
    /\ idle' = 0
    /\ fetching' = EmptyBag
    /\ sending' = EmptyBag
    /\ exited' = 0
    /\ results' = <<>>
    /\ UNCHANGED <<envVars, runVars, exit, upstream, events, now, htmlContent,
                   lastContent, modified, patchErr, persist, published, file,
                   remote>>

\* wg.Wait returns, close(results), the results are collected in channel
\* order and sorted, and processArticles returns (lines 146-155)
processArticlesEnd ==
    /\ pc = "pool"
    /\ chClosed
    /\ exited = concurrency
    /\ articles' = sortArticlesByDate(results)
    /\ pc' = "articles"
    /\ sent' = 0
    /\ ch' = <<>>
    /\ chClosed' = FALSE
    /\ idle' = 0
    /\ fetching' = EmptyBag
    /\ sending' = EmptyBag
    /\ exited' = 0
    /\ results' = <<>>
    /\ UNCHANGED <<envVars, runVars, exit, upstream, events, now, htmlContent,
                   lastContent, modified, patchErr, persist, published, file,
                   remote>>

\* news main going on to generateHTML whatever the number of articles
checkArticlesNoReturn ==
    /\ pc = "articles"
    /\ pc' = "generate"
    /\ exit' = exit
    /\ UNCHANGED <<envVars, runVars, upstream, events, now, articles, htmlContent,
                   lastContent, modified, patchErr, persist, published, file,
                   remote, poolVars>>

\* news main: if len(articles) == 0 { return }
checkArticles ==
    /\ pc = "articles"
    /\ IF Len(articles) = 0
       THEN Ends("ok: no articles found")
       ELSE pc' = "generate" /\ exit' = exit
    /\ UNCHANGED <<envVars, runVars, upstream, events, now, articles, htmlContent,
                   lastContent, modified, patchErr, persist, published, file,
                   remote, poolVars>>

----------------------------------------------------------------------------
(* main from generateHTML on *)

\* htmlContent := generateHTML(...)
generateHTML ==
    /\ pc = "generate"
    /\ \/ /\ handler = "calendar"
          /\ now' \in Nows
          /\ htmlContent' = generateHTMLCalendar(events, now')
       \/ /\ handler = "news"
          /\ now' = now
          /\ htmlContent' = generateHTMLNews(articles)
    /\ pc' = "update"
    /\ UNCHANGED <<envVars, runVars, exit, upstream, events, articles,
                   lastContent, modified, patchErr, persist, published, file,
                   remote, poolVars>>

\* modified, err := updateHTMLContent(htmlContent) / updateNewsHTML, and
\* main's handling of the two results
updateHTML ==
    /\ pc = "update"
    /\ \E io \in IOOutcomes :
         LET r == updateResult(handler, file, htmlContent, io)
             next == mainAfterUpdate(r.modified, r.err)
         IN  /\ file' = r.file
             /\ modified' = r.modified
             /\ patchErr' = r.err
             /\ persist' = r.persist
             /\ IF next = "fatal" THEN Ends("fatal: failed to update html")
                ELSE IF next = "commit" THEN pc' = "commit" /\ exit' = exit
                ELSE Ends("ok")
    /\ lastContent' = htmlContent
    /\ UNCHANGED <<envVars, runVars, upstream, events, now, articles, htmlContent,
                   published, remote, poolVars>>

\* gitCommitAndPush: add, commit and push, any of which may fail
gitCommitAndPush ==
    /\ pc = "commit"
    /\ published' = TRUE
    /\ \/ /\ remote' = file
          /\ Ends("ok")
       \/ /\ remote' = remote
          /\ Ends("fatal: failed to commit changes")
    /\ UNCHANGED <<envVars, runVars, upstream, events, now, articles, htmlContent,
                   lastContent, modified, patchErr, persist, file, poolVars>>

Next ==
    \/ mainStart
    \/ fetchEvents
    \/ fetchArticleURLs
    \/ processArticlesBegin
    \/ producerSend
    \/ producerClose
    \/ workerReceive
    \/ workerFetch
    \/ workerSend
    \/ workerExit
    \/ processArticlesEnd
    \/ checkArticles
    \/ generateHTML
    \/ updateHTML
    \/ gitCommitAndPush

Spec == Init /\ [][Next]_vars

----------------------------------------------------------------------------
(* The patcher specification: the patcher applied repeatedly to a document,*)
(* every file operation succeeding.                                        *)

Pieces == {"A", startMarker, endMarker}

RECURSIVE PieceDocs(_)
PieceDocs(n) ==
    IF n = 0 THEN {""}
    ELSE LET shorter == PieceDocs(n - 1)
         IN  shorter \cup {d \o p : d \in shorter, p \in Pieces}

Docs == PieceDocs(MaxPieces) \cup {ScenarioDoc}

Inners == {"old", "new", "x" \o endMarker \o "y", startMarker}

PatchInit ==
    /\ handler \in Handlers
    /\ site = [kind |-> "none"]
    /\ file \in Docs
    /\ orig = file
    /\ fileAtStart = file
    /\ remote = file
    /\ htmlContent \in Inners
    /\ lastContent = NoContent
    /\ modified = FALSE
    /\ patchErr = ""
    /\ persist = "none"
    /\ published = FALSE
    /\ run = 0
    /\ pc = "patch"
    /\ exit = "none"
    /\ prevExit = "none"
    /\ upstream = NoUpstream
    /\ prevUpstream = NoUpstream
    /\ events = <<>>
    /\ now = 0
    /\ articles = <<>>
    /\ PoolIdle

\* one application of the patcher, the file operations succeeding
PatchApply ==
    /\ pc = "patch"
    /\ run < MaxPatches
    /\ run' = run + 1
    /\ fileAtStart' = file
    /\ lastContent' = htmlContent
    /\ LET r == updateResult(handler, file, htmlContent, "ok")
       IN  /\ file' = r.file
           /\ modified' = r.modified
           /\ patchErr' = r.err
           /\ persist' = r.persist
    /\ UNCHANGED <<envVars, pc, exit, prevExit, upstream, prevUpstream,
                   remote, events, now, articles, htmlContent, published,
                   poolVars>>

\* the next application gets another inner content
PatchNewContent ==
    /\ pc = "patch"
    /\ run < MaxPatches
    /\ htmlContent' \in Inners \ {htmlContent}
    /\ UNCHANGED <<envVars, runVars, pc, exit, upstream, file, remote,
                   events, now, articles, lastContent, modified, patchErr,
                   persist, published, poolVars>>

PatchNext == PatchApply \/ PatchNewContent

SpecPatch == PatchInit /\ [][PatchNext]_vars

----------------------------------------------------------------------------
(* The calendar assembly specification: fetchEvents' sort and generateHTML *)
(* of the two calendar handlers of the repository, applied to a feed.      *)

\* the calendar handlers: calendarSyncHandler.go ("calendar") and the one
\* kept in assets/js/maintenanceStatusLogic.js ("upcoming")
Variants == {"calendar", "upcoming"}

\* the placeholder of the "upcoming" handler
noUpcoming == "<div class=\"event\"><p>No upcoming events published.</p></div>"

\* the "upcoming" generateHTML without its placeholder
generateHTMLUpcomingBare(evs, at) ==
    concatHTML(evs, [i \in 1..Len(evs) |-> ~(evs[i].End < at)])

\* the "upcoming" generateHTML without its freshness filter
generateHTMLUpcomingAll(evs, at) ==
    IF Len(evs) = 0 THEN noUpcoming
    ELSE concatHTML(evs, [i \in 1..Len(evs) |-> TRUE])

\* generateHTML of the "upcoming" handler, time.Now() being the day at
generateHTMLUpcoming(evs, at) ==
    IF Len(evs) = 0 THEN noUpcoming
    ELSE LET isUpcoming == [i \in 1..Len(evs) |-> ~(evs[i].End < at)]
             hasUpcoming == \E i \in 1..Len(evs) : isUpcoming[i]
         IN  concatHTML(evs, isUpcoming)
                 \o (IF ~hasUpcoming THEN noUpcoming ELSE "")

\* generateHTML of handler h
generateHTMLOf(h, evs, at) ==
    IF h = "calendar" THEN generateHTMLCalendar(evs, at)
    ELSE generateHTMLUpcoming(evs, at)

Camp == [Summary |-> "Camp", Start |-> 2, End |-> 6]
Swim == [Summary |-> "Swim", Start |-> 3, End |-> 3]

\* the events a feed may hold, and the feeds, in feed order
AssembleEvents == {Meet, Gala, Camp, Swim}
AssembleFeeds == SeqsUpTo(AssembleEvents, MaxEvents)

\* time.Now() at generateHTML: before every event, amid them, after all
AssembleNows == {1, 3, 5, 7}

AssembleInit ==
    /\ handler \in Variants
    /\ site = [kind |-> "calendar"]
    /\ upstream \in {[kind |-> "calendar", feed |-> feed] :
                        feed \in AssembleFeeds}
    /\ pc = "fetch"
    /\ events = <<>>
    /\ now = 0
    /\ htmlContent = NoContent
    /\ lastContent = NoContent
    /\ file = ScenarioDoc
    /\ orig = file
    /\ fileAtStart = file
    /\ remote = file
    /\ run = 1
    /\ exit = "running"
    /\ prevExit = "none"
    /\ prevUpstream = NoUpstream
    /\ articles = <<>>
    /\ modified = FALSE
    /\ patchErr = ""
    /\ persist = "none"
    /\ published = FALSE
    /\ PoolIdle

\* fetchEvents returns the events of the feed, sorted
AssembleFetch ==
    /\ pc = "fetch"
    /\ events' = sortEvents(upstream.feed)
    /\ pc' = "generate"
    /\ UNCHANGED <<envVars, runVars, exit, upstream, now, articles,
                   htmlContent, lastContent, modified, patchErr, persist,
                   published, file, remote, poolVars>>

\* htmlContent := generateHTML(events, log)
AssembleGenerate ==
    /\ pc = "generate"
    /\ now' \in AssembleNows
    /\ htmlContent' = generateHTMLOf(handler, events, now')
    /\ pc' = "assembled"
    /\ UNCHANGED <<envVars, runVars, exit, upstream, events, articles,
                   lastContent, modified, patchErr, persist, published, file,
                   remote, poolVars>>

AssembleNext == AssembleFetch \/ AssembleGenerate

SpecAssemble == AssembleInit /\ [][AssembleNext]_vars

----------------------------------------------------------------------------
(* The worker-pool specification: processArticles alone, on listings       *)
(* shorter than, as long as and longer than the pool and the work queue.   *)

\* the listing of n article links: the pages of the site, over and over
PoolListing(n) ==
    [i \in 1..n |->
        CASE i % 4 = 1 -> "/news/1"
          [] i % 4 = 2 -> "/news/4"
          [] i % 4 = 3 -> "/news/3"
          [] OTHER -> "/news/2"]

\* the article pages that fail: none, some, or all
PoolFailing == {{}, {"/news/2"}, URLs}

PoolSites ==
    {[kind |-> "news", urls |-> PoolListing(n), failing |-> failing] :
        n \in 0..MaxPoolURLs, failing \in PoolFailing}

\* main has called processArticles(articleURLs)
PoolInit ==
    /\ handler = "news"
    /\ site \in PoolSites
    /\ upstream = site
    /\ pc = "processArticles"
    /\ events = <<>>
    /\ now = 0
    /\ htmlContent = NoContent
    /\ lastContent = NoContent
    /\ file = ScenarioDoc
    /\ orig = file
    /\ fileAtStart = file
    /\ remote = file
    /\ run = 1
    /\ exit = "running"
    /\ prevExit = "none"
    /\ prevUpstream = NoUpstream
    /\ articles = <<>>
    /\ modified = FALSE
    /\ patchErr = ""
    /\ persist = "none"
    /\ published = FALSE
    /\ PoolIdle

PoolNext ==
    \/ processArticlesBegin
    \/ producerSend
    \/ producerClose
    \/ workerReceive
    \/ workerFetch
    \/ workerSend
    \/ workerExit
    \/ processArticlesEnd

SpecPool == PoolInit /\ [][PoolNext]_vars

\* The Go scheduler runs a goroutine that can take a step, and fetchArticle
\* returns because the requests of client time out after 30 seconds: while
\* the producer or a worker can take a step, a step is taken.
PoolFairness == WF_vars(PoolNext)

FairSpecPool == SpecPool /\ PoolFairness

----------------------------------------------------------------------------
(* The content specification: processContent alone, on the bodies of       *)
(* article pages built of text, paragraphs and headings.                   *)

\* the nodes a body is built of
Nodes ==
    {"intro", "<p>body  text</p>", "<h1>News</h1>",
     "<h2>Top <b>story</b></h2>", "<h6>end\nnote</h6>"}

RECURSIVE Concat(_)
Concat(s) == IF s = <<>> THEN "" ELSE Head(s) \o Concat(Tail(s))

\* content, _ := newsItem.Find("div.Content").Html()
Bodies == {Concat(s) : s \in SeqsUpTo(Nodes, MaxNodes)}

\* fetchArticle has read the body of the page
ContentInit ==
    /\ handler = "news"
    /\ site = [kind |-> "news", urls |-> <<>>, failing |-> {}]
    /\ upstream = site
    /\ pc = "content"
    /\ htmlContent \in Bodies
    /\ lastContent = NoContent
    /\ events = <<>>
    /\ now = 0
    /\ file = ScenarioDoc
    /\ orig = file
    /\ fileAtStart = file
    /\ remote = file
    /\ run = 1
    /\ exit = "running"
    /\ prevExit = "none"
    /\ prevUpstream = NoUpstream
    /\ articles = <<>>
    /\ modified = FALSE
    /\ patchErr = ""
    /\ persist = "none"
    /\ published = FALSE
    /\ PoolIdle

\* Content: processContent(content)
ContentProcess ==
    /\ pc = "content"
    /\ pc' = "processed"
    /\ lastContent' = processContent(htmlContent)
    /\ UNCHANGED <<envVars, runVars, exit, upstream, events, now, articles,
                   htmlContent, modified, patchErr, persist, published, file,
                   remote, poolVars>>

ContentNext == ContentProcess

SpecContent == ContentInit /\ [][ContentNext]_vars

----------------------------------------------------------------------------
(* Properties of the patcher, checked under SpecPatch *)

\* the first start marker is followed by the first end marker
InOrder(html) ==
    /\ Index(html, startMarker) # -1
    /\ Index(html, endMarker) >= Index(html, startMarker) + Len(startMarker)

\* the text before the start marker, and the text from the end marker onward
BeforeStart(html) == SliceTo(html, Index(html, startMarker))
FromEnd(html) == SliceFrom(html, Index(html, endMarker))

\* the last n characters of s
Tail_n(s, n) == SubSeq(s, Len(s) - n + 1, Len(s))

\* the document holds the start marker, and an end marker after it
StartThenEnd(html) ==
    /\ Contains(html, startMarker)
    /\ Contains(SliceFrom(html, startIdx(html)), endMarker)

\* a step that applies the patcher once more with the content of the
\* application before it, to the document that application left
SecondApplication ==
    /\ run' = run + 1
    /\ run >= 1
    /\ htmlContent = lastContent

\* C1 (as stated): for every document that holds the start marker followed
\* by the end marker and for EVERY new inner content, the second application
\* of the patcher with the same content reports changed=false and leaves the
\* document byte-identical.
C1_IdempotentAnyContent ==
    [][(SecondApplication /\ StartThenEnd(fileAtStart))
         => (modified' = FALSE /\ patchErr' = "" /\ file' = file)]_vars

\* C1 (what holds): the same, for the documents whose first end marker
\* follows the first start marker and for every new inner content that does
\* not itself contain the end marker.
C1_Idempotent ==
    [][(/\ SecondApplication
        /\ InOrder(fileAtStart)
        /\ ~Contains(htmlContent, endMarker))
         => (modified' = FALSE /\ patchErr' = "" /\ file' = file)]_vars

\* C1 witness: a well-formed document was changed by the first application
\* and the second application, with the same content, reported no change.
C1_Witness ==
    /\ run = 2
    /\ InOrder(orig)
    /\ ~Contains(htmlContent, endMarker)
    /\ lastContent = htmlContent
    /\ file = updated(handler, orig, htmlContent)
    /\ file # orig
    /\ fileAtStart = file
    /\ modified = FALSE

\* C2: boundary preservation.  After any number of patches every byte up to
\* and including the original document's start marker is still the head of
\* the document, and every byte from the original document's end marker
\* onward is still its tail; the same holds of each single patch relative to
\* the document it was given.
C2_BoundaryPreserved ==
    /\ (run >= 1 /\ ~markersNotFound(orig)) =>
         /\ Contains(orig, startMarker) =>
              SliceTo(file, startIdx(orig)) = SliceTo(orig, startIdx(orig))
         /\ Tail_n(file, Len(FromEnd(orig))) = FromEnd(orig)
    /\ (run >= 1 /\ patchErr = "") =>
         /\ Contains(fileAtStart, startMarker) =>
              SliceTo(file, startIdx(fileAtStart))
                  = SliceTo(fileAtStart, startIdx(fileAtStart))
         /\ Tail_n(file, Len(FromEnd(fileAtStart))) = FromEnd(fileAtStart)

\* C2 witness: the scenario document (text on both sides of the markers)
\* after two patches that changed it.
C2_Witness ==
    /\ run >= 2
    /\ orig = ScenarioDoc
    /\ file # orig
    /\ file # fileAtStart
    /\ SliceTo(file, 1) = "A"
    /\ Tail_n(file, 1) = "B"

\* the separator each patcher puts around the new inner content
Separator(h) == IF h = "calendar" THEN "\n" ELSE ""

\* C5 (as stated): for a document with both markers in order, BOTH patchers
\* yield  before + start marker + "\n" + inner + "\n" + from-end-marker.
C5_CandidateBothNewlines ==
    (run >= 1 /\ InOrder(fileAtStart)) =>
        file = BeforeStart(fileAtStart) \o startMarker \o "\n" \o lastContent
                   \o "\n" \o FromEnd(fileAtStart)

\* C5 (amended): the calendar patcher yields before + start marker + "\n" +
\* inner + "\n" + from-end-marker; the news patcher inserts the inner content
\* verbatim, before + start marker + inner + from-end-marker.  changed is
\* true exactly when that differs from the input, so the scenario document
\* with inner "new" gives "A<start>\nnew\n<end>B" (calendar), changed=true.
C5_Candidate ==
    /\ (run >= 1 /\ InOrder(fileAtStart)) =>
         /\ patchErr = ""
         /\ file = BeforeStart(fileAtStart) \o startMarker
                       \o Separator(handler) \o lastContent
                       \o Separator(handler) \o FromEnd(fileAtStart)
         /\ modified = (file # fileAtStart)
    /\ (run >= 1 /\ fileAtStart = ScenarioDoc /\ lastContent = "new") =>
         /\ modified = TRUE
         /\ handler = "calendar" =>
              file = "A" \o startMarker \o "\nnew\n" \o endMarker \o "B"
         /\ handler = "news" =>
              file = "A" \o startMarker \o "new" \o endMarker \o "B"

\* C5 witness: the news patcher applied to the scenario document.
C5_Witness ==
    /\ run >= 1
    /\ handler = "news"
    /\ fileAtStart = ScenarioDoc
    /\ lastContent = "new"
    /\ file = "A" \o startMarker \o "new" \o endMarker \o "B"
    /\ modified = TRUE

----------------------------------------------------------------------------
(* Properties of the runs, checked under Spec *)

\* the patch step of the current run has returned
Patched ==
    /\ run >= 1
    /\ htmlContent # NoContent
    /\ pc # "update"

\* the document could be opened and read
DocumentRead == patchErr \notin {"file open failed", "file read failed"}

\* the text strictly between the first start marker and the first end marker
Between(html) ==
    SubSeq(html, Index(html, startMarker) + Len(startMarker) + 1,
           Index(html, endMarker))

\* the document holds both markers, and its only end markers lie before the
\* start marker
OnlyEndBeforeStart(html) ==
    /\ Contains(html, startMarker)
    /\ Contains(html, endMarker)
    /\ Index(html, endMarker) < Index(html, startMarker)
    /\ ~Contains(SliceFrom(html, Index(html, startMarker)), endMarker)

\* C3 (as stated): if the document lacks the start marker or lacks the end
\* marker, the patch step fails with the "markers not found" error, the
\* document on disk is not modified and no publish is attempted.
C3_MissingMarkerIsError ==
    (/\ Patched
     /\ DocumentRead
     /\ \/ ~Contains(fileAtStart, startMarker)
        \/ ~Contains(fileAtStart, endMarker))
    => /\ patchErr = "markers not found"
       /\ file = fileAtStart
       /\ ~published
       /\ pc # "commit"

\* C4 (as stated): when the only end marker of the document lies before the
\* start marker, the run fails with a fatal error and the document is not
\* patched or written.
C4_MarkerOrder ==
    (/\ Patched
     /\ DocumentRead
     /\ OnlyEndBeforeStart(fileAtStart))
    => /\ patchErr # ""
       /\ file = fileAtStart
       /\ ~published
       /\ pc # "commit"

\* C6 (as stated): whenever the new inner content is identical to the text
\* strictly between the two markers, the patch reports changed=false and
\* neither the file write nor commit/push happens.
C6_NoOpOnEqualInner ==
    (/\ Patched
     /\ InOrder(fileAtStart)
     /\ Between(fileAtStart) = htmlContent)
    => /\ modified = FALSE
       /\ file = fileAtStart
       /\ persist = "none"
       /\ ~published
       /\ pc # "commit"

\* C6 (amended): whenever the text strictly between the two markers is
\* identical to the text the patcher inserts there (the new inner content
\* between two newlines for the calendar patcher, the new inner content
\* itself for the news patcher), the patch reports changed=false and neither
\* the file write nor commit/push happens.
C6_NoOpOnEqualRegion ==
    (/\ Patched
     /\ InOrder(fileAtStart)
     /\ Between(fileAtStart)
            = Separator(handler) \o htmlContent \o Separator(handler))
    => /\ modified = FALSE
       /\ file = fileAtStart
       /\ persist = "none"
       /\ ~published
       /\ pc # "commit"

\* C6 witness: a second calendar run that computed the content the first run
\* had written found nothing to change and ended as a success.
C6_Witness ==
    /\ Patched
    /\ run = 2
    /\ handler = "calendar"
    /\ InOrder(fileAtStart)
    /\ fileAtStart # orig
    /\ Between(fileAtStart) = "\n" \o htmlContent \o "\n"
    /\ patchErr = ""
    /\ modified = FALSE
    /\ pc = "ready"
    /\ exit = "ok"

\* C7: commit/push is invoked only if the patch step of the same run reported
\* changed=true, without an error, having written the patched document; a
\* run whose patch step reports changed=false without an error has written
\* nothing, invokes no commit/push and ends as a success.
C7_ChangeGated ==
    /\ (pc = "commit" \/ published)
         => /\ modified = TRUE
            /\ patchErr = ""
            /\ file = updated(handler, fileAtStart, htmlContent)
            /\ file # fileAtStart
    /\ (Patched /\ modified = FALSE /\ patchErr = "")
         => /\ file = fileAtStart
            /\ persist = "none"
            /\ ~published
            /\ pc = "ready"
            /\ exit = "ok"

\* C7 witness: after a run that wrote and published a change, a run whose
\* patch step reported changed=false ended as a success without publishing.
C7_Witness ==
    /\ Patched
    /\ run = 2
    /\ prevExit = "ok"
    /\ remote = file
    /\ remote # orig
    /\ modified = FALSE
    /\ patchErr = ""
    /\ ~published
    /\ pc = "ready"
    /\ exit = "ok"

\* C8: whenever commit/push is reached the write of the changed document has
\* been completed, and if truncate, seek or write fails, commit/push is never
\* attempted in that run and the run ends with an error.
C8_PersistBeforePublish ==
    /\ (pc = "commit" \/ published) => persist = "ok"
    /\ persist = "ok" => file = updated(handler, fileAtStart, htmlContent)
    /\ persist = "failed"
         => /\ patchErr \in {"file truncate failed", "file seek failed",
                             "file write failed"}
            /\ ~published
            /\ pc = "ready"
            /\ exit = "fatal: failed to update html"

\* C8 witness: the write of a changed document failed half way; the run ended
\* with an error and without a publish.
C8_Witness ==
    /\ run >= 1
    /\ persist = "failed"
    /\ patchErr = "file write failed"
    /\ file # fileAtStart
    /\ file # ""
    /\ ~published
    /\ exit = "fatal: failed to update html"

\* C9 (as stated): if a run wrote the changed document and its commit/push
\* failed, a subsequent run with the same upstream content, which detects no
\* local diff, invokes commit/push again.
C9_PublishRetried ==
    (/\ Patched
     /\ pc = "ready"
     /\ exit = "ok"
     /\ prevExit = "fatal: failed to commit changes"
     /\ upstream = prevUpstream
     /\ file = fileAtStart)
    => published

\* C10 (as stated): when two consecutive news runs see identical upstream
\* content and the first run succeeded, the second run writes nothing and
\* makes no commit, for every interleaving of the article workers.
C10_NoSpuriousCommit ==
    (/\ Patched
     /\ handler = "news"
     /\ run >= 2
     /\ InOrder(orig)
     /\ prevExit = "ok"
     /\ upstream = prevUpstream)
    => /\ modified = FALSE
       /\ file = fileAtStart
       /\ ~published
       /\ pc # "commit"

----------------------------------------------------------------------------
(* Properties of the news batch, checked under Spec *)

\* processArticles has returned in the current run
Returned ==
    /\ upstream.kind = "news"
    /\ pc \notin {"processArticles", "pool"}

\* the URLs of the listing whose fetch succeeds, in listing order
Succeeding(u) == SelectSeq(u.urls, LAMBDA url : url \notin u.failing)

\* N - K: the number of URLs of the listing less those that fail
Surviving(u) == Len(Succeeding(u))

\* the number of occurrences of sub in s
CountOf(s, sub) ==
    Cardinality({i \in 1..(Len(s) - Len(sub) + 1) :
                    SubSeq(s, i, i + Len(sub) - 1) = sub})

\* the opening of an article fragment
ItemOpen == "<div class=\"news-item\">"

\* C11 (as stated): for N URLs of which any K fail, K = N included, the
\* assembled output holds exactly N-K article fragments and the run reaches
\* the patch/publish decision instead of stopping early.
C11_BestEffortAnyK ==
    (Returned /\ pc = "ready")
    => /\ Patched
       /\ CountOf(htmlContent, ItemOpen) = Surviving(upstream)

\* C11 (amended): processArticles returns exactly N-K articles; when
\* N-K > 0 the assembled output holds exactly N-K article fragments and the
\* run reaches the patch step; when N-K = 0 (no URL, or every URL fails) the
\* run ends as a success before any output is assembled, the document
\* untouched.
C11_BestEffort ==
    Returned =>
        /\ Len(articles) = Surviving(upstream)
        /\ htmlContent # NoContent
             => CountOf(htmlContent, ItemOpen) = Surviving(upstream)
        /\ (Surviving(upstream) > 0 /\ pc = "ready") => Patched
        /\ (Surviving(upstream) = 0 /\ pc # "articles")
             => /\ pc = "ready"
                /\ exit = "ok: no articles found"
                /\ htmlContent = NoContent
                /\ file = fileAtStart
                /\ ~published

\* C11 witness: of two URLs one failed; the run assembled one fragment,
\* patched the document and published.
C11_Witness ==
    /\ Returned
    /\ Len(upstream.urls) = 2
    /\ Surviving(upstream) = 1
    /\ CountOf(htmlContent, ItemOpen) = 1
    /\ Patched
    /\ published
    /\ pc = "ready"
    /\ exit = "ok"

\* the step by which processArticles returns
Returns == pc = "pool" /\ pc' # "pool"

\* C12: processArticles returns, its results read and sorted, only when every
\* URL of the list has been put on the work queue and taken from it, no fetch
\* is still running, every worker has exited and every successful fetch has
\* delivered its article; and while a URL is still queued, being fetched or
\* undelivered, the stage has not returned.
C12_FanInBarrier ==
    [][Returns =>
          /\ sent = Len(upstream.urls)
          /\ chClosed
          /\ ch = <<>>
          /\ fetching = EmptyBag
          /\ sending = EmptyBag
          /\ exited = concurrency
          /\ Len(results) = Surviving(upstream)
          /\ Len(articles') = Surviving(upstream)]_vars

\* C12 witness: processArticles has returned from a list of several URLs of
\* which one failed and another succeeded.
C12_Witness ==
    /\ pc = "articles"
    /\ upstream.kind = "news"
    /\ Len(upstream.urls) >= 2
    /\ upstream.failing # {}
    /\ Len(articles) >= 1
    /\ PoolIdle

\* the articles of the successful fetches, in listing order
Fetched(u) ==
    [i \in 1..Len(Succeeding(u)) |-> fetchArticle(Succeeding(u)[i])]

\* the elements of a sequence with their multiplicities
BagOf(s) ==
    [x \in Range(s) |-> Cardinality({i \in 1..Len(s) : s[i] = x})]

\* C13: under every interleaving of the workers the slice returned by
\* processArticles holds the article of each successful fetch exactly once
\* (as many times as the fetch succeeded, for a URL listed more than once),
\* and nothing else: none dropped, none duplicated, none invented or altered.
C13_CollectorExact ==
    Returned => BagOf(articles) = BagOf(Fetched(upstream))

\* C13 witness: two different articles, fetched by two workers, were both
\* returned.
C13_Witness ==
    /\ Returned
    /\ pc = "articles"
    /\ upstream.failing = {}
    /\ Len(articles) = 2
    /\ articles[1] # articles[2]
    /\ Range(articles) = {fetchArticle("/news/1"), fetchArticle("/news/3")}

\* the text that precedes the publication date in an article fragment
PublishedOn == "<p class=\"news-date\">Published on "

\* the positions of the assembled output where a publication date begins
DatePositions(html) ==
    {i + Len(PublishedOn) :
        i \in {j \in 1..(Len(html) - Len(PublishedOn) + 1) :
                  SubSeq(html, j, j + Len(PublishedOn) - 1) = PublishedOn}}

\* the publication date rendered at position p: "Unknown Date", or a date in
\* timeFormat of January 2006
DateAt(html, p) ==
    IF SubSeq(html, p, p + 11) = "Unknown Date" THEN "Unknown Date"
    ELSE SubSeq(html, p, p + 14)

\* C14: in the assembled news output every article fragment carries a
\* publication date later than or equal to that of every fragment after it
\* (so of the adjacent one), "Unknown Date" counting as the earliest date,
\* the zero time it parses to; and the articles returned by processArticles
\* are in that order.
C14_NewsDescending ==
    /\ Returned =>
         \A i \in 1..(Len(articles) - 1) :
            DayOf(articles[i].Date) >= DayOf(articles[i + 1].Date)
    /\ (Returned /\ htmlContent # NoContent) =>
         LET ps == DatePositions(htmlContent)
         IN  /\ Cardinality(ps) = Len(articles)
             /\ \A p \in ps : \A q \in ps :
                  p < q => DayOf(DateAt(htmlContent, p))
                               >= DayOf(DateAt(htmlContent, q))

\* C14 witness: the listing gave the article without a date first and a
\* dated one second; the output renders the dated one first.
C14_Witness ==
    /\ Returned
    /\ upstream.urls = <<"/news/4", "/news/3">>
    /\ upstream.failing = {}
    /\ htmlContent # NoContent
    /\ LET ps == DatePositions(htmlContent)
       IN  /\ Cardinality(ps) = 2
           /\ \E p \in ps : \E q \in ps :
                /\ p < q
                /\ DateAt(htmlContent, p) = "January 3, 2006"
                /\ DateAt(htmlContent, q) = "Unknown Date"

\* C15 (as stated): for a fixed set of successfully fetched articles the
\* sequence returned by processArticles is the same for every order in which
\* the workers complete, articles of the same publication date included: it
\* is the one obtained when the articles arrive in listing order.
C15_OrderIndependent ==
    Returned => articles = sortArticlesByDate(Fetched(upstream))

----------------------------------------------------------------------------
(* Properties of the calendar assembly, checked under SpecAssemble *)

\* generateHTML has returned
Assembled == pc = "assembled"

\* the text that precedes the start date in an event fragment
EventStart == "<p><b>Event Start:</b> "

\* the positions of the output where the start date of an event begins
StartPositions(html) ==
    {i + Len(EventStart) :
        i \in {j \in 1..(Len(html) - Len(EventStart) + 1) :
                  SubSeq(html, j, j + Len(EventStart) - 1) = EventStart}}

\* the day of the date "January 0d, 2006" rendered at position p
RenderedDay(html, p) ==
    CHOOSE n \in 1..9 : SubSeq(html, p + 9, p + 9) = Digit[n]

\* the position where the past-events section opens (0: there is none)
PastSection(html) == Index(html, pastOpen) + 1

\* p and q lie on the same side of the opening of the past-events section
SameSection(html, p, q) ==
    \/ PastSection(html) = 0
    \/ (p < PastSection(html)) = (q < PastSection(html))

\* C16 (as stated): in the assembled calendar output every rendered event
\* starts no later than every event rendered after it, for every event list
\* and every "now".
C16_CalendarAscendingAll ==
    Assembled =>
        LET ps == StartPositions(htmlContent)
        IN  \A p \in ps : \A q \in ps :
              p < q => RenderedDay(htmlContent, p)
                           <= RenderedDay(htmlContent, q)

\* C16 (amended): the "upcoming" handler renders its events in ascending
\* start order throughout; calendarSyncHandler.go renders the events that
\* have not ended in ascending start order and, after them, inside the
\* past-events section, the events that have ended in ascending start order.
C16_CalendarAscending ==
    Assembled =>
        LET ps == StartPositions(htmlContent)
        IN  /\ handler = "upcoming" => PastSection(htmlContent) = 0
            /\ \A p \in ps : \A q \in ps :
                 (p < q /\ SameSection(htmlContent, p, q))
                   => RenderedDay(htmlContent, p)
                          <= RenderedDay(htmlContent, q)
            /\ Cardinality(ps) <= Len(events)
            /\ handler = "calendar" => Cardinality(ps) = Len(events)

\* C16 witness: a feed given latest event first was rendered by the
\* "upcoming" handler earliest event first.
C16_Witness ==
    /\ Assembled
    /\ handler = "upcoming"
    /\ upstream.feed = <<Gala, Camp, Meet>>
    /\ now = 1
    /\ LET ps == StartPositions(htmlContent)
       IN  /\ Cardinality(ps) = 3
           /\ \E p \in ps : \E q \in ps : \E r \in ps :
                /\ p < q /\ q < r
                /\ RenderedDay(htmlContent, p) = 1
                /\ RenderedDay(htmlContent, q) = 2
                /\ RenderedDay(htmlContent, r) = 3

\* the heading of the fragment of an event
Heading(event) == "<h2><strong>" \o event.Summary \o "</strong></h2>"

\* the positions of the output where the fragment heading of event begins
HeadingPositions(html, event) ==
    {j \in 1..(Len(html) - Len(Heading(event)) + 1) :
        SubSeq(html, j, j + Len(Heading(event)) - 1) = Heading(event)}

\* the number of times event occurs in the sequence evs
Times(evs, event) == Cardinality({i \in 1..Len(evs) : evs[i] = event})

\* C17 (as stated): only events ending at or after "now" appear in the
\* assembled calendar fragment; no event whose end is before "now" is
\* rendered anywhere in the output.
C17_OnlyFreshRendered ==
    Assembled =>
        \A event \in Range(events) :
            Cardinality(HeadingPositions(htmlContent, event))
                = IF event.End < now THEN 0 ELSE Times(events, event)

\* C17 (amended): the "upcoming" handler renders exactly the events ending
\* at or after "now" and no event that has ended; calendarSyncHandler.go
\* renders every event, those ending at or after "now" before the
\* past-events section and those that have ended inside that section.
C17_Freshness ==
    Assembled =>
        \A event \in Range(events) :
            LET ps == HeadingPositions(htmlContent, event)
                past == PastSection(htmlContent)
            IN  /\ handler = "upcoming" =>
                     Cardinality(ps)
                         = IF event.End < now THEN 0
                           ELSE Times(events, event)
                /\ handler = "calendar" =>
                     /\ Cardinality(ps) = Times(events, event)
                     /\ event.End < now
                          => (past # 0 /\ \A p \in ps : p > past)
                     /\ ~(event.End < now)
                          => (past = 0 \/ \A p \in ps : p < past)

\* C17 witness: of a feed with an ended and a running event the "upcoming"
\* handler rendered the running one only.
C17_Witness ==
    /\ Assembled
    /\ handler = "upcoming"
    /\ events = <<Meet, Gala>>
    /\ now = 3
    /\ HeadingPositions(htmlContent, Meet) = {}
    /\ Cardinality(HeadingPositions(htmlContent, Gala)) = 1

\* the text of the placeholder fragment
NoEventsText == "No upcoming events published."

\* no event remains after the freshness filter
NoneRemain == \A i \in 1..Len(events) : events[i].End < now

\* C18 (as stated): when no event remains after the freshness filter the
\* assembled calendar output is exactly one placeholder fragment, and when
\* at least one event remains the placeholder does not appear.
C18_PlaceholderAlways ==
    Assembled =>
        IF NoneRemain
        THEN /\ CountOf(htmlContent, NoEventsText) = 1
             /\ StartPositions(htmlContent) = {}
        ELSE CountOf(htmlContent, NoEventsText) = 0

\* C18 (amended): the "upcoming" handler yields exactly its placeholder
\* fragment when the feed is empty or every event has ended, and no
\* placeholder when an event remains; calendarSyncHandler.go has no
\* placeholder: it yields the empty string for an empty feed and only the
\* past-events section when every event has ended.
C18_Placeholder ==
    Assembled =>
        /\ handler = "upcoming" =>
             IF NoneRemain THEN htmlContent = noUpcoming
             ELSE CountOf(htmlContent, NoEventsText) = 0
        /\ handler = "calendar" =>
             /\ CountOf(htmlContent, NoEventsText) = 0
             /\ events = <<>> => htmlContent = ""
             /\ (NoneRemain /\ events # <<>>) =>
                  /\ PastSection(htmlContent) = 1
                  /\ Cardinality(StartPositions(htmlContent)) = Len(events)

\* C18 witness: every event of a non-empty feed had ended and the "upcoming"
\* handler produced its placeholder alone.
C18_Witness ==
    /\ Assembled
    /\ handler = "upcoming"
    /\ Len(events) >= 2
    /\ NoneRemain
    /\ htmlContent = noUpcoming

----------------------------------------------------------------------------
(* Properties of aborted runs, checked under Spec *)

\* the run ended because the feed or the listing could not be fetched
FeedFailed ==
    exit \in {"fatal: failed to fetch events",
              "fatal: failed to fetch article urls"}

\* the step in which fetchEvents / fetchArticleURLs returns an error
FetchFails == pc = "fetch" /\ upstream' = NoUpstream

\* C19: when fetching or parsing the calendar feed or the news listing fails,
\* that very step ends the run with an error: there is no second attempt, no
\* article is fetched, nothing is assembled, the target document is neither
\* opened nor written, and no commit/push is made; and the run stays ended
\* that way until the next run begins.
C19_FeedFailureFatal ==
    /\ [][FetchFails =>
            /\ pc' = "ready"
            /\ FeedFailed'
            /\ file' = file
            /\ remote' = remote]_vars
    /\ [](FeedFailed =>
            /\ pc = "ready"
            /\ upstream = NoUpstream
            /\ events = <<>>
            /\ articles = <<>>
            /\ PoolIdle
            /\ htmlContent = NoContent
            /\ patchErr = ""
            /\ persist = "none"
            /\ modified = FALSE
            /\ file = fileAtStart
            /\ ~published)

\* C19 witness: after a run that published a change, a run failed at the
\* feed and left the document and the remote as they were.
C19_Witness ==
    /\ run = 2
    /\ prevExit = "ok"
    /\ FeedFailed
    /\ file # orig
    /\ file = fileAtStart
    /\ remote = file

\* the run ended with a fatal error
Aborted ==
    exit \in {"fatal: missing PAT_TOKEN",
              "fatal: failed to fetch events",
              "fatal: failed to fetch article urls",
              "fatal: failed to update html",
              "fatal: failed to commit changes"}

\* C20 (as stated): whenever a run ends with a fatal error (missing
\* PAT_TOKEN, feed failure, missing markers, or a failure while persisting)
\* the target document is byte-identical to its content at the start of the
\* run, never truncated or partially written.
C20_NoPartialWrites ==
    (Aborted /\ exit # "fatal: failed to commit changes")
    => file = fileAtStart

----------------------------------------------------------------------------
(* Properties of the worker pool *)

\* the URLs the workers have taken from the work queue so far
Taken == SubSeq(upstream.urls, 1, sent - Len(ch))

\* the number of times the URL u occurs in the sequence s
TimesIn(s, u) == Cardinality({i \in 1..Len(s) : s[i] = u})

\* the number of articles of URL u the workers hold, waiting to send them
SendingOf(u) ==
    LET held == {a \in BagToSet(sending) : a.URL = u}
    IN  IF held = {} THEN 0 ELSE CopiesIn(CHOOSE a \in held : TRUE, sending)

\* the number of articles of URL u in the results channel
ResultsOf(u) == Cardinality({i \in 1..Len(results) : results[i].URL = u})

\* C21: while processArticles runs there are exactly concurrency workers, so
\* at most concurrency fetches are in flight whatever the number of URLs; the
\* queue holds the URLs sent and not yet taken, in order, and every URL taken
\* from it is with exactly one worker (being fetched, or fetched and waiting
\* to be sent) or has been finished by exactly one worker.
C21_BoundedParallelism ==
    pc = "pool" =>
        /\ BagCardinality(fetching) <= concurrency
        /\ idle + BagCardinality(fetching) + BagCardinality(sending) + exited
             = concurrency
        /\ Len(ch) <= concurrency
        /\ Len(ch) <= sent
        /\ ch = SubSeq(upstream.urls, sent - Len(ch) + 1, sent)
        /\ \A u \in URLs :
             IF u \in upstream.failing
             THEN /\ CopiesIn(u, fetching) <= TimesIn(Taken, u)
                  /\ SendingOf(u) = 0
                  /\ ResultsOf(u) = 0
             ELSE CopiesIn(u, fetching) + SendingOf(u) + ResultsOf(u)
                    = TimesIn(Taken, u)

\* C21 witness: of a listing longer than the pool, every worker is fetching
\* and further URLs wait in the queue.
C21_Witness ==
    /\ pc = "pool"
    /\ Len(upstream.urls) > concurrency
    /\ BagCardinality(fetching) = concurrency
    /\ idle = 0
    /\ ch # <<>>

\* a worker holds an article and the results channel has no room for it
SendBlocked == BagCardinality(sending) > 0 /\ Len(results) >= Len(upstream.urls)

\* the producer has a URL to send and the work queue is full
ProducerBlocked == sent < Len(upstream.urls) /\ Len(ch) >= concurrency

\* C23: for every number of URLs and every pattern of failures
\* processArticles terminates: the results channel never holds more than
\* len(urls) articles and always has room for a worker that wants to send,
\* a producer blocked on the full queue is released, the queue is closed,
\* every worker exits, and processArticles returns.
C23_PoolTerminates ==
    /\ [](pc = "pool" => Len(results) <= Len(upstream.urls) /\ ~SendBlocked)
    /\ (pc = "pool" /\ ProducerBlocked) ~> ~ProducerBlocked
    /\ (pc = "pool") ~> (pc = "pool" /\ chClosed /\ exited = concurrency)
    /\ (pc = "processArticles") ~> (pc = "articles")

\* C23 witness: of a listing longer than the pool and the work queue, some
\* pages failing, processArticles has returned as many articles as there
\* are workers.
C23_Witness ==
    /\ pc = "articles"
    /\ Len(upstream.urls) > concurrency
    /\ Len(articles) >= concurrency
    /\ upstream.failing # {}

----------------------------------------------------------------------------
(* Properties of processContent *)

\* the number of heading elements opened in a piece of HTML
Headings(s) ==
    Cardinality({i \in 1..(Len(s) - 2) :
                    \E t \in HeadingTags : SubSeq(s, i, i + 2) = "<" \o t})

\* the number of paragraphs of the heading pass in a piece of HTML
NewsParagraphs(s) == CountOf(s, "<p class=\"news-paragraph\">")

\* C22 (as stated): the processed body contains no heading element of any
\* level, every heading of the source being replaced by a paragraph-styled
\* element.
C22_NoHeadingLeft ==
    pc = "processed"
    => /\ Headings(lastContent) = 0
       /\ NewsParagraphs(lastContent) = Headings(htmlContent)

\* C22 (what the code does): every heading element of the source is still
\* in the processed body, each holding one styled paragraph with the text of
\* the heading, the markup inside the heading gone.
C22_HeadingsKept ==
    pc = "processed"
    => /\ Headings(lastContent) = Headings(htmlContent)
       /\ NewsParagraphs(lastContent) = Headings(htmlContent)
       /\ \A t \in HeadingTags :
            CountOf(lastContent, "<" \o t \o "><p class=\"news-paragraph\">")
              = CountOf(htmlContent, "<" \o t \o ">")
       /\ Headings(htmlContent) > 0 => ~Contains(lastContent, "<b>")

\* C22 witness: a body with a heading of level 2 was processed, and the
\* heading element is in the result around its paragraph.
C22_Witness ==
    /\ pc = "processed"
    /\ Contains(htmlContent, "<h2>Top <b>story</b></h2>")
    /\ Contains(lastContent,
                "<h2><p class=\"news-paragraph\">Top story</p></h2>")

----------------------------------------------------------------------------
(* Marker uniqueness, checked under SpecPatch *)

\* the document holds exactly one start marker and exactly one end marker,
\* the start marker first
UniqueMarkers(html) ==
    /\ CountOf(html, startMarker) = 1
    /\ CountOf(html, endMarker) = 1
    /\ InOrder(html)

\* the text holds neither marker
MarkerFree(text) == ~Contains(text, startMarker) /\ ~Contains(text, endMarker)

\* a step that applies the patcher with success
SuccessfulPatch == run' = run + 1 /\ patchErr' = ""

\* C24: a patch applied to a document with exactly one start marker and one
\* end marker, in order, with an inner content that holds neither marker,
\* succeeds and leaves a document with exactly one start marker and one end
\* marker, in order; so the markers stay unique after any number of such
\* patches.
C24_MarkersStayUnique ==
    [][(run' = run + 1 /\ UniqueMarkers(file) /\ MarkerFree(htmlContent))
         => (SuccessfulPatch /\ UniqueMarkers(file'))]_vars

\* C24 witness: three patches were applied to a document with unique
\* markers, the latest ones with marker-free contents that differ, and the
\* document, changed, has unique markers.
C24_Witness ==
    /\ pc = "patch"
    /\ run = MaxPatches
    /\ UniqueMarkers(orig)
    /\ UniqueMarkers(fileAtStart)
    /\ MarkerFree(lastContent)
    /\ MarkerFree(htmlContent)
    /\ modified
    /\ file # orig
    /\ UniqueMarkers(file)

----------------------------------------------------------------------------
(* The empty news batch, checked under Spec *)

\* processArticles has returned no article and main has acted on it
EmptyBatch == Returned /\ Len(articles) = 0 /\ pc # "articles"

\* the step main takes on an empty batch
EmptyBatchStep == pc = "articles" /\ Len(articles) = 0

\* C25: when processArticles returns no article the news run ends there as
\* a success: news.html is neither opened nor modified, nothing is
\* assembled, committed or pushed, and there is no fatal error.
C25_EmptyBatchNoOp ==
    /\ [](EmptyBatch
            => /\ pc = "ready"
               /\ exit = "ok: no articles found"
               /\ htmlContent = NoContent
               /\ file = fileAtStart
               /\ persist = "none"
               /\ ~modified
               /\ ~published)
    /\ [][EmptyBatchStep
            => /\ pc' = "ready"
               /\ file' = file
               /\ remote' = remote
               /\ published' = published]_vars

\* C25 witness: the two article pages of the listing both failed, and the
\* run has ended with the document and the remote as they were.
C25_Witness ==
    /\ EmptyBatch
    /\ Len(upstream.urls) = 2
    /\ Range(upstream.urls) \subseteq upstream.failing
    /\ pc = "ready"
    /\ exit = "ok: no articles found"
    /\ file = orig
    /\ remote = orig

====
